---- MODULE Spec2Model ----
(***************************************************************************)
(* Model of the time-series analysis front end (src/src/App.tsx and its    *)
(* components) together with the analysis service it calls.  The front end *)
(* is translated from the TypeScript source; the service (parse-csv,       *)
(* analyze) is not part of the sources at hand and is modelled from the    *)
(* written specification of the statistics engine.                         *)
(***************************************************************************)
EXTENDS Integers, Sequences, FiniteSets, TLC

(***************************************************************************)
(* Bounds of the model.                                                    *)
(***************************************************************************)
\* handler invocations (handleFileUpload, and handleCalculate past its early
\* return) started in one behaviour
MaxHandlerRuns == 4
\* rows of a file of the wide file set
MaxRows == 4

(***************************************************************************)
(* Values of the TypeScript types.                                         *)
(***************************************************************************)
\* null of `File | null`, `TimeSeriesData | null`, `AnalysisResults | null`
Null == [isNull |-> TRUE]

\* a number that is a ratio of integers, <<numerator, denominator>>
Abs(x) == IF x < 0 THEN -x ELSE x

RECURSIVE Gcd(_, _)
Gcd(a, b) == IF b = 0 THEN a ELSE Gcd(b, a % b)

Norm(q) ==
    LET g == Gcd(Abs(q[1]), Abs(q[2]))
        s == IF q[2] < 0 THEN -1 ELSE 1
    IN  IF q[1] = 0 THEN <<0, 1>> ELSE <<s * (q[1] \div g), s * (q[2] \div g)>>

Zero == <<0, 1>>
One == <<1, 1>>
RAdd(p, q) ==
    LET g == Gcd(p[2], q[2])
    IN  Norm(<<p[1] * (q[2] \div g) + q[1] * (p[2] \div g), (p[2] \div g) * q[2]>>)
RNeg(p) == <<-p[1], p[2]>>
RSub(p, q) == RAdd(p, RNeg(q))
RMul(p, q) ==
    LET a == Norm(<<p[1], q[2]>>)
        b == Norm(<<q[1], p[2]>>)
    IN  Norm(<<a[1] * b[1], a[2] * b[2]>>)
RDiv(p, q) == RMul(p, Norm(<<q[2], q[1]>>))
\* p <= q, for denominators > 0
RLeq(p, q) == RSub(p, q)[1] <= 0
RAbs(p) == <<Abs(p[1]), p[2]>>

RECURSIVE SumSeq(_)
SumSeq(s) == IF s = <<>> THEN 0 ELSE s[1] + SumSeq(Tail(s))

RECURSIVE RSum(_)
RSum(s) == IF s = <<>> THEN Zero ELSE RAdd(s[1], RSum(Tail(s)))

(***************************************************************************)
(* The analysis service (Python, not among the sources at hand), from the  *)
(* specification of the statistics engine: SeriesIngestor, Autocorrelation *)
(* Engine, PartialAutocorrelationEngine, TrendEstimator and                *)
(* AnalysisCoordinator.                                                    *)
(***************************************************************************)
EmptyInputError == "EmptyInputError"
InsufficientDataError == "InsufficientDataError"

\* the engine's cap on the number of lags, maxLag = min(LagCap, n - 1)
LagCap == 3
\* the recursion's denominator is compared with 1 / EpsilonInv
EpsilonInv == 1000000

\* a cell of the uploaded table parsed as a number: <<v>>, or <<>> when the
\* cell does not parse (it is then treated as missing)
ParseCell(c) ==
    CASE c = "0" -> <<0>>
      [] c = "1" -> <<1>>
      [] c = "2" -> <<2>>
      [] c = "3" -> <<3>>
      [] OTHER -> <<>>

IsNumeric(row) == ParseCell(row.cell) # <<>>

\* SeriesIngestor.ingest: missing values are dropped together with their
\* labels; no numeric cell at all or fewer than 2 usable values is rejected
ingest(rows) ==
    LET kept == SelectSeq(rows, IsNumeric)
    IN  IF kept = <<>> THEN [ok |-> FALSE, error |-> EmptyInputError]
        ELSE IF Len(kept) < 2 THEN [ok |-> FALSE, error |-> InsufficientDataError]
        ELSE [ok |-> TRUE,
              body |-> [values |-> [i \in 1..Len(kept) |-> ParseCell(kept[i].cell)[1]],
                        labels |-> [i \in 1..Len(kept) |-> kept[i].label]]]

\* n * (x_t - mean), an integer
Deviations(values) ==
    LET n == Len(values)
        S == SumSeq(values)
    IN  [t \in 1..n |-> n * values[t] - S]

\* AutocorrelationEngine.computeACF: autocovariance at lag k over the lag-0
\* autocovariance, centred on the mean of the whole series; 0 for a
\* constant series
computeACF(values, maxLag) ==
    LET n == Len(values)
        d == Deviations(values)
        var == SumSeq([t \in 1..n |-> d[t] * d[t]])
        cov(k) == SumSeq([t \in 1..(n - k) |-> d[t] * d[t + k]])
    IN  [k \in 1..maxLag |->
            [lag |-> k, value |-> IF var = 0 THEN Zero ELSE Norm(<<cov(k), var>>)]]

\* q < 1 / EpsilonInv for a ratio q with a positive denominator
BelowEpsilon(q) == q[1] <= (q[2] - 1) \div EpsilonInv

\* one step of the Durbin-Levinson recursion and the steps after it: phi is
\* phi_{k-1}[1..k-1], out the PACF values of lags 1..k-1
RECURSIVE DurbinLevinson(_, _, _, _, _)
DurbinLevinson(r, k, phi, out, maxLag) ==
    IF k > maxLag THEN out
    ELSE IF k = 1 THEN DurbinLevinson(r, 2, <<r[1]>>, <<r[1]>>, maxLag)
    ELSE LET den == RSub(One, RSum([j \in 1..(k - 1) |-> RMul(phi[j], r[j])]))
             num == RSub(r[k], RSum([j \in 1..(k - 1) |-> RMul(phi[j], r[k - j])]))
             pk == RDiv(num, den)
             next == [j \in 1..k |->
                          IF j = k THEN pk ELSE RSub(phi[j], RMul(pk, phi[k - j]))]
         IN  IF BelowEpsilon(den)
             THEN out \o [j \in 1..(maxLag - k + 1) |-> Zero]
             ELSE DurbinLevinson(r, k + 1, next, Append(out, pk), maxLag)

\* PartialAutocorrelationEngine.computePACF
computePACF(acf, maxLag) ==
    LET r == [k \in 1..maxLag |-> acf[k].value]
        p == DurbinLevinson(r, 1, <<>>, <<>>, maxLag)
    IN  [k \in 1..maxLag |-> [lag |-> k, value |-> p[k]]]

\* TrendEstimator.estimateTrend: the least-squares slope against the index
\* 1..n, significant when the correlation with the index leaves the band
\* 1.96 / sqrt(n) (1.96^2 = 2401 / 625); for n = 2 when the points differ
estimateTrend(values) ==
    LET n == Len(values)
        d == Deviations(values)
        a == Deviations([i \in 1..n |-> i])
        Sxy == SumSeq([i \in 1..n |-> a[i] * d[i]])
        Sxx == SumSeq([i \in 1..n |-> a[i] * a[i]])
        Syy == SumSeq([i \in 1..n |-> d[i] * d[i]])
    IN  [coefficient |-> Norm(<<Sxy, Sxx>>),
         hasTrend |-> IF n = 2 THEN values[1] # values[2]
                      ELSE 625 * n * Sxy * Sxy > 2401 * Sxx * Syy]

Min(a, b) == IF a < b THEN a ELSE b

\* AnalysisCoordinator.analyze behind POST /api/analyze
analyze(values) ==
    LET n == Len(values)
        maxLag == Min(LagCap, n - 1)
        acf == computeACF(values, maxLag)
        trend == estimateTrend(values)
    IN  IF n = 0 THEN [ok |-> FALSE, error |-> EmptyInputError]
        ELSE IF n < 2 THEN [ok |-> FALSE, error |-> InsufficientDataError]
        ELSE [ok |-> TRUE,
              body |-> [autocorrelations |-> acf,
                        pacf |-> computePACF(acf, maxLag),
                        trendCoefficient |-> trend.coefficient,
                        hasTrend |-> trend.hasTrend]]

(***************************************************************************)
(* The front end: the state of App and its two asynchronous handlers.      *)
(* isDarkMode only selects colours and is left out.                        *)
(***************************************************************************)
VARIABLES
    uploadedFile,     \* useState<File | null>
    timeSeriesData,   \* useState<TimeSeriesData | null>
    analysisResults,  \* useState<AnalysisResults | null>
    isCalculating,    \* useState(false)
    uploads,          \* the handleFileUpload invocations, in the order started
    calcs,            \* the handleCalculate invocations that sent a request
    alerts,           \* how often each alert() message has been shown
    surfaced,         \* <<named input error, message shown for it>> so far
    origin,           \* which invocation set uploadedFile, timeSeriesData,
                      \* analysisResults (0: none, the value is null)
    disk,             \* the files the user picks from
    handlersLeft      \* uploads and calculations the user will still start

vars == <<uploadedFile, timeSeriesData, analysisResults, isCalculating, uploads,
          calcs, alerts, surfaced, origin, disk, handlersLeft>>

\* the two alert() texts
FileAlert == "file"
CalcAlert == "calc"

\* file.name.endsWith('.csv') || '.xlsx' || '.xls', on the name's extension
Supported(file) == file.ext \in {"csv", "xlsx", "xls"}

\* how an awaited fetch and the decoding of its body can end
Network == [kind |-> "network"]
Decode == [kind |-> "decode"]
Rejected(e) == [kind |-> "status", error |-> e]
Ok(b) == [kind |-> "ok", body |-> b]
FromService(r) == IF r.ok THEN Ok(r.body) ELSE Rejected(r.error)

\* how a request to the service can end: it fails on the way, the body of
\* the answer does not decode, or the service's answer arrives
Ends == {"network", "decode", "answer"}

\* POST /api/parse-csv answered by the service, or failing on the way
ParseOutcome(end, content) ==
    CASE end = "network" -> Network
      [] end = "decode" -> Decode
      [] OTHER -> FromService(ingest(content))

\* a parse-csv service that returns the cleaned columns without checking
\* how many values are left
Cleaned(content) ==
    LET kept == SelectSeq(content, IsNumeric)
    IN  [values |-> [i \in 1..Len(kept) |-> ParseCell(kept[i].cell)[1]],
         labels |-> [i \in 1..Len(kept) |-> kept[i].label]]

\* POST /api/analyze answered by the service, or failing on the way
AnalyzeOutcome(end, body) ==
    CASE end = "network" -> Network
      [] end = "decode" -> Decode
      [] OTHER -> FromService(analyze(body.values))

\* the narrative of the feedback collaborator
Narrative == "narrative"
FeedbackOutcomes == {Network, Decode, Rejected("unavailable"), Ok([feedback |-> Narrative])}

\* the whole series is sent instead of its values
AnalyzeRequestBodyWholeSeries(data) == data

\* JSON.stringify({ values: timeSeriesData.values })
AnalyzeRequestBody(data) == [values |-> data.values]

\* the whole result is sent instead of the two fields
FeedbackRequestBodyWholeResult(results) == results

\* JSON.stringify({ autocorrelations, trendCoefficient }) of the results
FeedbackRequestBody(results) ==
    [autocorrelations |-> results.autocorrelations,
     trendCoefficient |-> results.trendCoefficient]

\* the failure of the feedback call leaks into the result as its narrative
MergeFeedbackLeaksFailure(results, outcome) ==
    results @@ [aiFeedback |-> IF outcome.kind = "ok" THEN outcome.body.feedback
                                ELSE outcome.kind]

\* a failed feedback call leaves the result without its pacf
MergeFeedbackLosesPacf(results, outcome) ==
    IF outcome.kind = "ok"
    THEN results @@ [aiFeedback |-> outcome.body.feedback]
    ELSE [results EXCEPT !.pacf = <<>>]

\* the inner try/catch: results.aiFeedback is set only from an OK response
\* whose body decoded
MergeFeedback(results, outcome) ==
    IF outcome.kind = "ok"
    THEN results @@ [aiFeedback |-> outcome.body.feedback]
    ELSE results

\* the outer catch of handleCalculate is entered
AnalyzeThrows(outcome) == outcome.kind # "ok"

\* the catch of handleFileUpload is entered
ParseThrows(outcome) == outcome.kind # "ok"

Alert(msg) == [alerts EXCEPT ![msg] = @ + 1]

Surface(outcome, msg) ==
    IF outcome.kind = "status" /\ outcome.error \in {EmptyInputError, InsufficientDataError}
    THEN surfaced \cup {<<outcome.error, msg>>}
    ELSE surfaced

\* what is rendered
UploadAreaShown == uploadedFile = Null
ResetShown == uploadedFile # Null
ControlsShown == timeSeriesData # Null /\ analysisResults = Null
CalculateEnabled == ControlsShown /\ ~isCalculating
RecalculateShown == analysisResults # Null

(***************************************************************************)
(* The files of the user.                                                  *)
(***************************************************************************)
Row(l, c) == [label |-> l, cell |-> c]

\* the files of an ordinary session: a series with a gap and an unlabelled
\* row, a single observation, no number at all, and a file of another type
Disk ==
    { [ext |-> "csv", rows |-> <<Row("a", "1"), Row("b", "x"), Row("", "3"), Row("d", "1")>>],
      [ext |-> "xlsx", rows |-> <<Row("a", "2")>>],
      [ext |-> "csv", rows |-> <<Row("a", "x")>>],
      [ext |-> "txt", rows |-> <<Row("a", "1"), Row("b", "2")>>] }

\* the rows a file of the wide file set is made of
RowKinds == {Row("a", "0"), Row("b", "1"), Row("c", "2"), Row("", "3"), Row("d", "x")}

RECURSIVE SeqsUpTo(_, _)
SeqsUpTo(S, n) ==
    IF n = 0 THEN {<<>>}
    ELSE LET shorter == SeqsUpTo(S, n - 1)
         IN  shorter \cup {Append(q, e) : q \in {t \in shorter : Len(t) = n - 1}, e \in S}

\* every csv file of at most MaxRows rows
WideFiles == {[ext |-> "csv", rows |-> r] : r \in SeqsUpTo(RowKinds, MaxRows)}

(***************************************************************************)
(* Init: App as first rendered.                                            *)
(***************************************************************************)
InitApp ==
    /\ uploadedFile = Null
    /\ timeSeriesData = Null
    /\ analysisResults = Null
    /\ isCalculating = FALSE
    /\ uploads = <<>>
    /\ calcs = <<>>
    /\ alerts = [m \in {FileAlert, CalcAlert} |-> 0]
    /\ surfaced = {}
    /\ origin = [file |-> 0, series |-> 0, results |-> 0]

Init ==
    /\ InitApp
    /\ disk = Disk
    /\ handlersLeft = MaxHandlerRuns

\* the session over the csv files only
InitCsv ==
    /\ InitApp
    /\ disk = {f \in Disk : f.ext = "csv"}
    /\ handlersLeft = MaxHandlerRuns

\* two handler invocations over any one file of the wide set
InitWide ==
    /\ InitApp
    /\ \E f \in WideFiles : disk = {f}
    /\ handlersLeft = 2

(***************************************************************************)
(* handleFileUpload, one action per stretch between awaits.                *)
(***************************************************************************)
\* the file is dropped or chosen: lines 29-44, up to the first await
HandleFileUpload(file) ==
    /\ UploadAreaShown
    /\ handlersLeft > 0
    /\ file \in disk
    /\ handlersLeft' = handlersLeft - 1
    /\ uploadedFile' = file
    /\ analysisResults' = Null
    /\ origin' = [origin EXCEPT !.file = Len(uploads) + 1, !.results = 0]
    /\ IF Supported(file)
       THEN /\ uploads' = Append(uploads, [pc |-> "read", file |-> file])
            /\ alerts' = alerts
       ELSE /\ uploads' = Append(uploads, [pc |-> "done", file |-> file])
            /\ alerts' = Alert(FileAlert)
    /\ UNCHANGED <<timeSeriesData, isCalculating, calcs, surfaced, disk>>

\* file.text() / file.arrayBuffer() and the workbook conversion settle:
\* lines 36-53; the request to parse-csv is sent
ReadSettles(u) ==
    /\ u \in DOMAIN uploads
    /\ uploads[u].pc = "read"
    /\ \E readable \in BOOLEAN :
          IF readable
          THEN /\ uploads' = [uploads EXCEPT ![u] =
                                 [pc |-> "parse", file |-> @.file, content |-> @.file.rows]]
               /\ alerts' = alerts
          ELSE /\ uploads' = [uploads EXCEPT ![u] = [pc |-> "done", file |-> @.file]]
               /\ alerts' = Alert(FileAlert)
    /\ UNCHANGED <<uploadedFile, timeSeriesData, analysisResults, isCalculating,
                   calcs, surfaced, origin, disk, handlersLeft>>

\* the parse-csv request settles with `outcome`: lines 55-64
ParseContinues(u, outcome) ==
    /\ uploads' = [uploads EXCEPT ![u] = [pc |-> "done", file |-> @.file]]
    /\ surfaced' = Surface(outcome, FileAlert)
    /\ IF ParseThrows(outcome)
       THEN /\ alerts' = Alert(FileAlert)
            /\ UNCHANGED <<timeSeriesData, origin>>
       ELSE /\ timeSeriesData' = outcome.body
            /\ origin' = [origin EXCEPT !.series = u]
            /\ alerts' = alerts
    /\ UNCHANGED <<uploadedFile, analysisResults, isCalculating, calcs, disk, handlersLeft>>

ParseSettles(u) ==
    /\ u \in DOMAIN uploads
    /\ uploads[u].pc = "parse"
    /\ \E end \in Ends : ParseContinues(u, ParseOutcome(end, uploads[u].content))

\* the same against a service that does not check the number of values
ParseSettlesUnchecked(u) ==
    /\ u \in DOMAIN uploads
    /\ uploads[u].pc = "parse"
    /\ ParseContinues(u, Ok(Cleaned(uploads[u].content)))

\* the reset button: lines 168-172
Reset ==
    /\ ResetShown
    /\ uploadedFile' = Null
    /\ timeSeriesData' = Null
    /\ analysisResults' = Null
    /\ origin' = [file |-> 0, series |-> 0, results |-> 0]
    /\ UNCHANGED <<isCalculating, uploads, calcs, alerts, surfaced, disk, handlersLeft>>

(***************************************************************************)
(* handleCalculate, one action per stretch between awaits.                 *)
(***************************************************************************)
\* the calculate or the recalculate button is clicked: lines 68-80
HandleCalculate ==
    /\ CalculateEnabled \/ RecalculateShown
    /\ IF timeSeriesData = Null
       THEN UNCHANGED vars
       ELSE /\ handlersLeft > 0
            /\ handlersLeft' = handlersLeft - 1
            /\ isCalculating' = TRUE
            /\ calcs' = Append(calcs, [pc |-> "analyze",
                                       series |-> origin.series,
                                       request |-> AnalyzeRequestBody(timeSeriesData)])
            /\ UNCHANGED <<uploadedFile, timeSeriesData, analysisResults, uploads,
                           alerts, surfaced, origin, disk>>

\* the catch block also drops the result on display
AnalyzeSettlesClearsResults(c) ==
    /\ c \in DOMAIN calcs
    /\ calcs[c].pc = "analyze"
    /\ \E end \in Ends :
          LET outcome == AnalyzeOutcome(end, calcs[c].request) IN
          /\ surfaced' = Surface(outcome, CalcAlert)
          /\ IF AnalyzeThrows(outcome)
             THEN /\ alerts' = Alert(CalcAlert)
                  /\ isCalculating' = FALSE
                  /\ calcs' = [calcs EXCEPT ![c] =
                                  [pc |-> "done", series |-> @.series,
                                   request |-> @.request, stored |-> FALSE]]
                  /\ analysisResults' = Null
             ELSE /\ calcs' = [calcs EXCEPT ![c] =
                                  [pc |-> "feedback", series |-> @.series,
                                   request |-> @.request, results |-> outcome.body,
                                   feedback |-> FeedbackRequestBody(outcome.body)]]
                  /\ UNCHANGED <<alerts, isCalculating, analysisResults>>
    /\ UNCHANGED <<uploadedFile, timeSeriesData, uploads, origin, disk, handlersLeft>>

\* the busy flag is reset on the success path only, not in a finally block
AnalyzeSettlesSkipsFinally(c) ==
    /\ c \in DOMAIN calcs
    /\ calcs[c].pc = "analyze"
    /\ \E end \in Ends :
          LET outcome == AnalyzeOutcome(end, calcs[c].request) IN
          /\ surfaced' = Surface(outcome, CalcAlert)
          /\ IF AnalyzeThrows(outcome)
             THEN /\ alerts' = Alert(CalcAlert)
                  /\ UNCHANGED isCalculating
                  /\ calcs' = [calcs EXCEPT ![c] =
                                  [pc |-> "done", series |-> @.series,
                                   request |-> @.request, stored |-> FALSE]]
             ELSE /\ calcs' = [calcs EXCEPT ![c] =
                                  [pc |-> "feedback", series |-> @.series,
                                   request |-> @.request, results |-> outcome.body,
                                   feedback |-> FeedbackRequestBody(outcome.body)]]
                  /\ UNCHANGED <<alerts, isCalculating>>
    /\ UNCHANGED <<uploadedFile, timeSeriesData, analysisResults, uploads, origin,
                   disk, handlersLeft>>

\* the analyze request settles: lines 82-99, or 111-116 when it failed
AnalyzeSettles(c) ==
    /\ c \in DOMAIN calcs
    /\ calcs[c].pc = "analyze"
    /\ \E end \in Ends :
          LET outcome == AnalyzeOutcome(end, calcs[c].request) IN
          /\ surfaced' = Surface(outcome, CalcAlert)
          /\ IF AnalyzeThrows(outcome)
             THEN /\ alerts' = Alert(CalcAlert)
                  /\ isCalculating' = FALSE
                  /\ calcs' = [calcs EXCEPT ![c] =
                                  [pc |-> "done", series |-> @.series,
                                   request |-> @.request, stored |-> FALSE]]
             ELSE /\ calcs' = [calcs EXCEPT ![c] =
                                  [pc |-> "feedback", series |-> @.series,
                                   request |-> @.request, results |-> outcome.body,
                                   feedback |-> FeedbackRequestBody(outcome.body)]]
                  /\ UNCHANGED <<alerts, isCalculating>>
    /\ UNCHANGED <<uploadedFile, timeSeriesData, analysisResults, uploads, origin,
                   disk, handlersLeft>>

\* the ai-feedback request settles: lines 101-110 and 114-116
FeedbackSettles(c) ==
    /\ c \in DOMAIN calcs
    /\ calcs[c].pc = "feedback"
    /\ \E outcome \in FeedbackOutcomes :
          /\ analysisResults' = MergeFeedback(calcs[c].results, outcome)
          /\ calcs' = [calcs EXCEPT ![c] =
                          [pc |-> "done", series |-> @.series, request |-> @.request,
                           stored |-> TRUE, results |-> @.results,
                           narrated |-> outcome.kind = "ok"]]
    /\ isCalculating' = FALSE
    /\ origin' = [origin EXCEPT !.results = c]
    /\ UNCHANGED <<uploadedFile, timeSeriesData, uploads, alerts, surfaced, disk, handlersLeft>>

\* the ai-feedback request is never answered: the await at line 90 does not
\* return
FeedbackHangs(c) ==
    /\ c \in DOMAIN calcs
    /\ calcs[c].pc = "feedback"
    /\ calcs' = [calcs EXCEPT ![c].pc = "hung"]
    /\ UNCHANGED <<uploadedFile, timeSeriesData, analysisResults, isCalculating,
                   uploads, alerts, surfaced, origin, disk, handlersLeft>>

(***************************************************************************)
(* TimeSeriesChart: what is handed to the three charts.                    *)
(***************************************************************************)
\* the label of the next point is taken
LabelOrIndexOffByOne(labels, i) ==
    IF i + 1 \in DOMAIN labels /\ labels[i + 1] # "" THEN labels[i + 1] ELSE ToString(i)

\* data.labels[index] || `${index + 1}`
LabelOrIndex(labels, i) ==
    IF i \in DOMAIN labels /\ labels[i] # "" THEN labels[i] ELSE ToString(i)

\* lines 13-17
ChartPoints(data) ==
    [i \in 1..Len(data.values) |->
        [index |-> i, value |-> data.values[i], label |-> LabelOrIndex(data.labels, i)]]

\* the lag is charted as the value
BarOfLag(coefficient) == [lag |-> coefficient.lag, value |-> <<coefficient.lag, 1>>]

\* one bar of a coefficient chart: lines 19-27
Bar(coefficient) == [lag |-> coefficient.lag, value |-> coefficient.value]

\* results?.autocorrelations.map(...) || []
autocorrelationData(results) ==
    IF results = Null THEN <<>>
    ELSE [k \in DOMAIN results.autocorrelations |-> Bar(results.autocorrelations[k])]

\* results?.pacf?.map(...) || []
pacfData(results) ==
    IF results = Null \/ "pacf" \notin DOMAIN results THEN <<>>
    ELSE [k \in DOMAIN results.pacf |-> Bar(results.pacf[k])]

(***************************************************************************)
(* The specifications.                                                     *)
(***************************************************************************)
Next ==
    \/ \E file \in disk : HandleFileUpload(file)
    \/ \E u \in DOMAIN uploads : ReadSettles(u)
    \/ \E u \in DOMAIN uploads : ParseSettles(u)
    \/ Reset
    \/ HandleCalculate
    \/ \E c \in DOMAIN calcs : AnalyzeSettles(c)
    \/ \E c \in DOMAIN calcs : FeedbackSettles(c)
    \/ \E c \in DOMAIN calcs : FeedbackHangs(c)

\* an ordinary session against the service as specified
Spec == Init /\ [][Next]_vars

\* a short session over the wide file set
WideSpec == InitWide /\ [][Next]_vars

\* the session against a parse-csv service that returns whatever is left
NextUnchecked ==
    \/ Next
    \/ \E u \in DOMAIN uploads : ParseSettlesUnchecked(u)

UncheckedSpec == Init /\ [][NextUnchecked]_vars

\* the same service, the session over the csv files only
UncheckedCsvSpec == InitCsv /\ [][NextUnchecked]_vars

\* a continuation whose awaited promise can settle
Settles ==
    \/ \E u \in DOMAIN uploads : ReadSettles(u) \/ ParseSettles(u)
    \/ \E c \in DOMAIN calcs : AnalyzeSettles(c) \/ FeedbackSettles(c)

\* the event loop runs every continuation whose promise has settled, and a
\* request that is answered at all settles; nothing makes the feedback
\* collaborator answer (FeedbackHangs) or the user click
Fairness == WF_vars(Settles)

FairSpec == Spec /\ Fairness

(***************************************************************************)
(* The claims.                                                             *)
(***************************************************************************)
Stored(c) == c \in DOMAIN calcs /\ calcs[c].pc = "done" /\ calcs[c].stored

CoreFields == {"autocorrelations", "pacf", "trendCoefficient", "hasTrend"}
Core(results) == [f \in CoreFields |-> results[f]]

\* C1: when the feedback call of an invocation ends in a failure (network
\* error, non-OK status, undecodable body), the result stored is exactly the
\* analyze response of that invocation, it has no aiFeedback field, and no
\* alert is shown.
C1_FeedbackFailureAbsorbed ==
    [][\A c \in DOMAIN calcs :
          (calcs[c].pc = "feedback" /\ calcs'[c].pc = "done" /\ ~calcs'[c].narrated)
          => /\ calcs[c].results = analyze(calcs[c].request.values).body
             /\ analysisResults' = calcs[c].results
             /\ "aiFeedback" \notin DOMAIN analysisResults'
             /\ alerts' = alerts]_vars

C1_Witness ==
    \E c \in DOMAIN calcs :
        /\ Stored(c)
        /\ ~calcs[c].narrated
        /\ origin.results = c
        /\ analysisResults = calcs[c].results

\* C2: once the analyze request of an invocation has returned successfully,
\* its result is eventually stored, whatever the feedback call does.
C2_ResultNeverBlocked ==
    \A c \in 1..MaxHandlerRuns :
        (c \in DOMAIN calcs /\ calcs[c].pc \in {"feedback", "hung"}) ~> Stored(c)

\* C3: two different named input errors never lead to the same message.
C3_InputErrorsDistinguished ==
    \A a \in surfaced : \A b \in surfaced : a[2] = b[2] => a[1] = b[1]

\* C4: every analyze request carries at least 2 values.
C4_AnalyzeRequestHasTwoValues ==
    \A c \in DOMAIN calcs : Len(calcs[c].request.values) >= 2

\* C5: a feedback request is sent only by an invocation whose analyze
\* request was answered OK, in the step that receives that answer, never
\* again later, and its body is the autocorrelations and the
\* trendCoefficient of that answer and nothing else.
C5_FeedbackAfterAnalyze ==
    [][\A c \in DOMAIN calcs' :
          /\ (calcs'[c].pc = "feedback" /\ (c \notin DOMAIN calcs \/ calcs[c].pc # "feedback"))
             => /\ c \in DOMAIN calcs
                /\ calcs[c].pc = "analyze"
                /\ analyze(calcs[c].request.values).ok
                /\ calcs'[c].results = analyze(calcs[c].request.values).body
                /\ calcs'[c].feedback =
                      [autocorrelations |-> calcs'[c].results.autocorrelations,
                       trendCoefficient |-> calcs'[c].results.trendCoefficient]
          /\ (c \in DOMAIN calcs /\ calcs[c].pc \in {"hung", "done"})
             => calcs'[c].pc \in {"hung", "done"}]_vars

C5_Witness ==
    \E c \in DOMAIN calcs : calcs[c].pc = "feedback" /\ "aiFeedback" \notin DOMAIN calcs[c].feedback

\* C6: a result that is held is the answer to an analyze request for the
\* values of the series that is held.
C6_ResultsBelongToSeries ==
    analysisResults # Null
    => /\ timeSeriesData # Null
       /\ origin.results \in DOMAIN calcs
       /\ calcs[origin.results].request.values = timeSeriesData.values

\* the numeric rows of the file the held series was parsed from, in order
NumericRows == SelectSeq(uploads[origin.series].file.rows, IsNumeric)

\* C7 as stated: the series held has as many labels as values and every
\* charted point i carries labels[i].
C7_ChartedLabelIsOwnLabel ==
    timeSeriesData # Null
    => /\ Len(timeSeriesData.values) = Len(timeSeriesData.labels)
       /\ \A i \in DOMAIN timeSeriesData.values :
             ChartPoints(timeSeriesData)[i].label = timeSeriesData.labels[i]

\* C7 amended: the series held has as many labels as values, label i is the
\* label of the row value i was read from, and charted point i carries
\* labels[i], or its index i when labels[i] is the empty string.
C7_ChartedLabelOrIndex ==
    timeSeriesData # Null
    => /\ Len(timeSeriesData.values) = Len(timeSeriesData.labels)
       /\ Len(timeSeriesData.values) = Len(NumericRows)
       /\ \A i \in DOMAIN timeSeriesData.values :
             /\ NumericRows[i].label = timeSeriesData.labels[i]
             /\ ParseCell(NumericRows[i].cell) = <<timeSeriesData.values[i]>>
             /\ ChartPoints(timeSeriesData)[i].index = i
             /\ ChartPoints(timeSeriesData)[i].value = timeSeriesData.values[i]
             /\ ChartPoints(timeSeriesData)[i].label =
                   IF timeSeriesData.labels[i] = "" THEN ToString(i)
                   ELSE timeSeriesData.labels[i]

C7_Witness ==
    /\ timeSeriesData # Null
    /\ Len(timeSeriesData.values) < Len(uploads[origin.series].file.rows)
    /\ \E i \in DOMAIN timeSeriesData.labels : timeSeriesData.labels[i] = ""
    /\ \E i \in DOMAIN timeSeriesData.labels : timeSeriesData.labels[i] # ""

InUnitInterval(q) == RLeq(RAbs(q), One)

\* C9: every value charted for the result held, in the autocorrelation
\* chart and in the PACF chart, lies in [-1, 1].
C9_CoefficientsBounded ==
    /\ \A k \in DOMAIN autocorrelationData(analysisResults) :
          InUnitInterval(autocorrelationData(analysisResults)[k].value)
    /\ \A k \in DOMAIN pacfData(analysisResults) :
          InUnitInterval(pacfData(analysisResults)[k].value)

C9_Witness ==
    /\ analysisResults # Null
    /\ Len(pacfData(analysisResults)) = LagCap
    /\ \E k \in DOMAIN pacfData(analysisResults) :
          /\ pacfData(analysisResults)[k].value # Zero
          /\ pacfData(analysisResults)[k].value # autocorrelationData(analysisResults)[k].value

\* C10: an analyze request is sent only while a series stored from a parse
\* response is held, its body is { values } of that series and nothing
\* else, and a click with no series held changes nothing.
C10_AnalyzeFedByParse ==
    [][/\ Len(calcs') > Len(calcs)
          => /\ timeSeriesData # Null
             /\ origin.series \in DOMAIN uploads
             /\ uploads[origin.series].pc = "done"
             /\ Len(calcs') = Len(calcs) + 1
             /\ calcs'[Len(calcs')].pc = "analyze"
             /\ calcs'[Len(calcs')].request = [values |-> timeSeriesData.values]
       /\ (HandleCalculate /\ timeSeriesData = Null) => UNCHANGED vars]_vars

C10_Witness ==
    \E c \in DOMAIN calcs :
        /\ calcs[c].pc = "analyze"
        /\ timeSeriesData # Null
        /\ calcs[c].request = [values |-> timeSeriesData.values]

\* a handleCalculate invocation whose analyze or feedback request has not
\* completed
Outstanding(c) == c \in DOMAIN calcs /\ calcs[c].pc \in {"analyze", "feedback", "hung"}

\* C11: while any handleCalculate invocation is outstanding, isCalculating
\* is true.
C11_BusyWhileOutstanding ==
    (\E c \in DOMAIN calcs : Outstanding(c)) => isCalculating

\* C12: the series held belongs to the file held: when timeSeriesData is set,
\* uploadedFile is set and the series is the parse response for that upload.
C12_SeriesBelongsToFile ==
    timeSeriesData # Null =>
        /\ uploadedFile # Null
        /\ origin.series = origin.file

\* C13: a failed analysis changes nothing but the busy flag: when the analyze
\* request of an invocation fails, analysisResults, timeSeriesData and
\* uploadedFile are unchanged, no feedback request is sent, one alert is shown
\* and isCalculating is false; a request the service rejects always fails.
C13_FailedAnalysisFrame ==
    [][\A c \in DOMAIN calcs :
          /\ (calcs[c].pc = "analyze" /\ calcs'[c].pc # "feedback"
                 /\ calcs'[c] # calcs[c])
             => /\ UNCHANGED <<analysisResults, timeSeriesData, uploadedFile>>
                /\ calcs'[c].pc = "done" /\ ~calcs'[c].stored
                /\ "feedback" \notin DOMAIN calcs'[c]
                /\ alerts' = Alert(CalcAlert)
                /\ ~isCalculating'
          /\ (calcs[c].pc = "analyze"
                 /\ AnalyzeOutcome("answer", calcs[c].request).kind = "status")
             => calcs'[c].pc # "feedback"]_vars

\* a request the service rejected has failed while an earlier result is on
\* display
C13_Witness ==
    \E c \in DOMAIN calcs :
        /\ calcs[c].pc = "done" /\ ~calcs[c].stored
        /\ AnalyzeOutcome("answer", calcs[c].request).kind = "status"
        /\ analysisResults # Null
        /\ alerts[CalcAlert] > 0

\* C14: when no handleCalculate invocation is in progress, isCalculating is
\* false.
C14_IdleMeansNotBusy ==
    (\A c \in DOMAIN calcs : ~Outstanding(c)) => ~isCalculating

\* three invocations have ended, one by success, one by analyze failure and
\* one by feedback failure, and nothing is running
C14_Witness ==
    /\ \A c \in DOMAIN calcs : ~Outstanding(c)
    /\ \E c \in DOMAIN calcs : ~calcs[c].stored
    /\ \E c \in DOMAIN calcs : calcs[c].stored /\ calcs[c].narrated
    /\ \E c \in DOMAIN calcs : calcs[c].stored /\ ~calcs[c].narrated
    /\ ~isCalculating

====
